---- MODULE Spec2Model ----
(***************************************************************************)
(* Model of the Pinterest board aggregation pipeline (parseBoard,          *)
(* fetchPins, toSummary, sortPins and the aggregation GET handler) and of  *)
(* the image relay GET handler.                                            *)
(*                                                                         *)
(* JavaScript values are encoded as follows.                               *)
(*   - an optional string (undefined / null / a string) is a string, with  *)
(*     Absent standing for undefined and null, and "" for the empty string;*)
(*   - an optional array or number is a sequence of length at most one:    *)
(*     None for undefined / NaN, Some(v) for the value v.                  *)
(***************************************************************************)
EXTENDS Integers, Sequences, FiniteSets, TLC

VARIABLES
    pc,           \* position of the running handler / function
    boardParam,   \* query parameter "board" of the aggregation request
    limitParam,   \* query parameter "limit" of the aggregation request
    sortParam,    \* query parameter "sort" of the aggregation request
    limit,        \* GET (aggregation): const limit (a number or NaN)
    sort,         \* GET (aggregation): const sort
    fetchLimit,   \* fetchPins: parameter limit (a number or NaN)
    collected,    \* fetchPins: const collected
    bookmark,     \* fetchPins: let bookmark
    iterations,   \* fetchPins: let iterations
    requests,     \* number of outbound page requests issued by fetchPins
    sentBookmark, \* bookmark query parameter of the latest page request
    payload,      \* fetchPins: the latest page response (ok flag and body)
    result,       \* value returned by fetchPins
    response,     \* response of the GET handler: its status and, for the aggregation, its pins
    urlParam,     \* query parameter "url" of the relay request
    fetched,      \* URLs the relay has issued an outbound fetch to
    upstream,     \* relay: the upstream response
    pin,          \* toSummary: parameter pin
    summary,      \* toSummary: returned value
    pins,         \* sortPins: parameter pins
    sorted        \* sortPins: returned value

vars == <<pc, boardParam, limitParam, sortParam, limit, sort, fetchLimit,
          collected, bookmark, iterations, requests, sentBookmark, payload,
          result, response, urlParam, fetched, upstream, pin, summary, pins,
          sorted>>

aggVars   == <<boardParam, limitParam, sortParam, limit, sort, response>>
fetchVars == <<fetchLimit, collected, bookmark, iterations, requests,
               sentBookmark, payload, result>>
relayVars == <<urlParam, fetched, upstream>>
pureVars  == <<pin, summary, pins, sorted>>

(***************************************************************************)
(* Bounds of the model.                                                    *)
(***************************************************************************)
MaxPageLen == 2      \* records on one upstream page
MaxTarget == 3       \* largest limit a direct call of fetchPins is given

(***************************************************************************)
(* JavaScript value encodings.                                             *)
(***************************************************************************)
Absent == "<absent>"
None == <<>>
Some(v) == <<v>>
NaN == None
Num(n) == Some(n)
IsNaN(x) == x = NaN
Val(x) == x[1]

\* Truthiness of an optional string: undefined, null and "" are falsy.
Truthy(s) == s # Absent /\ s # ""
\* a ?? b on optional strings: b only when a is null or undefined.
Nullish(a, b) == IF a = Absent THEN b ELSE a
\* a || b on optional arrays: every array, the empty one included, is truthy.
OrArray(a, b) == IF a # None THEN a ELSE b
\* a < b on numbers: false when either side is NaN.
JsLess(a, b) == ~IsNaN(a) /\ ~IsNaN(b) /\ Val(a) < Val(b)

RECURSIVE SeqsUpTo(_, _)
SeqsUpTo(S, n) ==
    IF n = 0 THEN {<<>>}
    ELSE LET shorter == SeqsUpTo(S, n - 1)
         IN  shorter \cup {Append(s, x) : s \in {t \in shorter : Len(t) = n - 1}, x \in S}

Range(s) == {s[i] : i \in 1..Len(s)}

(***************************************************************************)
(* Raw records (type RawPin) and upstream page responses                   *)
(* (type PinterestResponse, plus the ok flag of the HTTP response).        *)
(***************************************************************************)
NoId == Absent
NoVariant == Absent

Images(orig, v736, v474, v170) ==
    [orig |-> orig, v736 |-> v736, v474 |-> v474, v170 |-> v170]

RawPin(id, images, likes, repins) ==
    [id |-> id, images |-> images, like_count |-> likes, repin_count |-> repins]

\* The records the modelled upstream serves: two records sharing id "1" with
\* different content, a record without usable image, and a record without id.
FixturePins ==
    { RawPin("1", Images("o1.jpg", NoVariant, NoVariant, NoVariant), Some(2), Some(0)),
      RawPin("1", Images(NoVariant, NoVariant, NoVariant, NoVariant), Some(0), Some(5)),
      RawPin("2", Images(NoVariant, "m2.jpg", NoVariant, NoVariant), None, Some(3)),
      RawPin(NoId, Images("o3.jpg", NoVariant, NoVariant, NoVariant), Some(1), Some(1)) }

Pages == SeqsUpTo(FixturePins, MaxPageLen)

Response(ok, dataPins, rrData, top, rr, opt) ==
    [ok |-> ok, data_pins |-> dataPins, rr_data |-> rrData,
     bookmark |-> top, rr_bookmark |-> rr, opt_bookmark |-> opt]

NoResponse == Response(TRUE, None, None, Absent, Absent, Absent)
ErrorResponse == Response(FALSE, None, None, Absent, Absent, Absent)


\* Cursor values: each of the three locations serves its own non-empty cursor,
\* so the bookmark of a request tells which location it was read from.
TopCursors == {Absent, "", "c-top"}
RrCursors == {Absent, "", "c-rr"}
OptCursors == {Absent, "", "c-opt"}

\* Pages of every shape under both record paths, followed by a cursor.
ShapePayloads ==
    { Response(TRUE, primary, fallback, "c-top", Absent, Absent) :
        primary \in {None} \cup {Some(p) : p \in Pages},
        fallback \in {None, Some(<<>>)} \cup {Some(<<x>>) : x \in {r \in FixturePins : r.id = "2"}} }

\* One-record pages with every combination of the three cursor locations.
CursorPayloads ==
    { Response(TRUE, Some(<<x>>), None, top, rr, opt) :
        x \in {r \in FixturePins : r.id = "1" /\ r.images.orig # NoVariant},
        top \in TopCursors, rr \in RrCursors, opt \in OptCursors }

FetchPayloads == ShapePayloads \cup CursorPayloads \cup {ErrorResponse}

(***************************************************************************)
(* fetchPins                                                               *)
(***************************************************************************)
MaxIterations == 10

\* while (collected.length < limit && iterations < 10)
\* (LoopCondNoCap: the condition without the iteration cap.)
LoopCondNoCap(coll, lim, iters) == JsLess(Num(Len(coll)), lim)
LoopCond(coll, lim, iters) ==
    JsLess(Num(Len(coll)), lim) /\ iters < MaxIterations

\* if (bookmark) url.searchParams.set('bookmark', bookmark)
BookmarkParam(bm) == IF Truthy(bm) THEN bm ELSE Absent

\* if (!response.ok) throw
\* (ResponseOkAlways: the status of the response is not looked at.)
ResponseOkAlways(p) == TRUE
ResponseOk(p) == p.ok

\* payload.data?.pins || payload.resource_response?.data || []
PinsPayload(p) == Val(OrArray(OrArray(p.data_pins, p.rr_data), Some(<<>>)))

\* collected.find((existing) => existing.id === pin.id)
Found(coll, raw) == \E i \in 1..Len(coll) : coll[i].id = raw.id

\* for (const pin of pinsPayload) if (!collected.find(...)) collected.push(pin)
\* (PushAll: every record is pushed, the find test left out.)
RECURSIVE PushAll(_, _)
PushAll(coll, page) ==
    IF page = <<>> THEN coll ELSE PushAll(Append(coll, Head(page)), Tail(page))

RECURSIVE PushNew(_, _)
PushNew(coll, page) ==
    IF page = <<>> THEN coll
    ELSE PushNew(IF Found(coll, Head(page)) THEN coll ELSE Append(coll, Head(page)),
                 Tail(page))

\* payload.bookmark ?? payload.resource_response?.bookmark
\*   ?? payload.resource?.options?.bookmark ?? null
NextBookmark(p) ==
    Nullish(Nullish(Nullish(p.bookmark, p.rr_bookmark), p.opt_bookmark), Absent)

\* Array.prototype.slice(0, n)
Slice(s, n) ==
    LET len == Len(s)
        end == IF IsNaN(n) THEN 0
               ELSE IF Val(n) < 0 THEN (IF len + Val(n) < 0 THEN 0 ELSE len + Val(n))
               ELSE IF Val(n) > len THEN len ELSE Val(n)
    IN  SubSeq(s, 1, end)

\* Top of the while loop with the condition true: the page request is issued.
SendRequest ==
    /\ pc = "loop"
    /\ LoopCond(collected, fetchLimit, iterations)
    /\ pc' = "await"
    /\ requests' = requests + 1
    /\ sentBookmark' = BookmarkParam(bookmark)
    /\ payload' = NoResponse      \* const payload of the previous iteration is out of scope
    /\ UNCHANGED <<fetchLimit, collected, bookmark, iterations, result>>
    /\ UNCHANGED <<aggVars, relayVars, pureVars>>

\* The awaited response p arrives; the rest of the loop body runs.
ReceivePage(p) ==
    /\ pc = "await"
    /\ payload' = p
    /\ IF ~ResponseOk(p)
       THEN /\ pc' = "thrown"
            /\ UNCHANGED <<collected, bookmark, iterations>>
       ELSE LET pinsPayload == PinsPayload(p)
            IN  IF pinsPayload = <<>>
                THEN /\ pc' = "noRecords"
                     /\ UNCHANGED <<collected, bookmark, iterations>>
                ELSE /\ collected' = PushNew(collected, pinsPayload)
                     /\ bookmark' = NextBookmark(p)
                     /\ IF ~Truthy(NextBookmark(p))
                        THEN pc' = "noCursor" /\ UNCHANGED iterations
                        ELSE pc' = "loop" /\ iterations' = iterations + 1
    /\ UNCHANGED <<fetchLimit, requests, sentBookmark, result>>
    /\ UNCHANGED <<aggVars, relayVars, pureVars>>

\* The loop is left (condition false, or a break): return collected.slice(0, limit)
Return ==
    /\ IF pc = "loop" THEN ~LoopCond(collected, fetchLimit, iterations)
                      ELSE pc \in {"noRecords", "noCursor"}
    /\ pc' = "returned"
    /\ result' = Slice(collected, fetchLimit)
    /\ UNCHANGED <<fetchLimit, collected, bookmark, iterations, requests,
                   sentBookmark, payload>>
    /\ UNCHANGED <<aggVars, relayVars, pureVars>>

\* State of the variables a specification does not use.
IdleAgg ==
    /\ boardParam = Absent /\ limitParam = None /\ sortParam = Absent
    /\ limit = NaN /\ sort = Absent /\ response = [status |-> 0, pins |-> <<>>]
IdleFetch ==
    /\ fetchLimit = NaN /\ collected = <<>> /\ bookmark = Absent
    /\ iterations = 0 /\ requests = 0 /\ sentBookmark = Absent
    /\ payload = NoResponse /\ result = <<>>
IdleRelay == urlParam = None /\ fetched = <<>> /\ upstream = Absent
IdlePure == pin = None /\ summary = None /\ pins = <<>> /\ sorted = <<>>

\* A call fetchPins(username, board, limit).
FetchTargets == {Num(n) : n \in 1..MaxTarget} \cup {NaN}

Init ==
    /\ pc = "loop"
    /\ fetchLimit \in FetchTargets
    /\ collected = <<>> /\ bookmark = Absent /\ iterations = 0
    /\ requests = 0 /\ sentBookmark = Absent /\ payload = NoResponse
    /\ result = <<>>
    /\ IdleAgg /\ IdleRelay /\ IdlePure

Next ==
    \/ SendRequest
    \/ \E p \in FetchPayloads : ReceivePage(p)
    \/ Return

Spec == Init /\ [][Next]_vars


(***************************************************************************)
(* parseBoard.  A board input is a sequence of tokens: " " (white space),  *)
(* "/" (the separator), an origin such as "https://www.pinterest.com", or  *)
(* a name.  Absent stands for a missing parameter.                         *)
(***************************************************************************)
IsOrigin(tok) == tok \in {"https://www.pinterest.com", "http://pinterest.com"}

RECURSIVE TrimStart(_)
TrimStart(t) == IF t # <<>> /\ Head(t) = " " THEN TrimStart(Tail(t)) ELSE t
RECURSIVE TrimEnd(_)
TrimEnd(t) ==
    IF t # <<>> /\ t[Len(t)] = " " THEN TrimEnd(SubSeq(t, 1, Len(t) - 1)) ELSE t
Trim(t) == TrimEnd(TrimStart(t))

\* split('/').filter(Boolean): the non-empty runs of tokens between separators.
RECURSIVE Segments(_, _)
Segments(t, run) ==
    IF t = <<>> THEN (IF run = <<>> THEN <<>> ELSE <<run>>)
    ELSE IF Head(t) = "/"
         THEN (IF run = <<>> THEN <<>> ELSE <<run>>) \o Segments(Tail(t), <<>>)
         ELSE Segments(Tail(t), Append(run, Head(t)))

\* The parsed board, or None when parseBoard throws.
parseBoard(input) ==
    IF input = Absent \/ input = <<>> THEN None
    ELSE LET trimmed == Trim(input)
         IN  IF trimmed = <<>> THEN None
             ELSE LET parts == IF IsOrigin(Head(trimmed))
                               THEN Segments(Tail(trimmed), <<>>)
                               ELSE Segments(trimmed, <<>>)
                  IN  IF Len(parts) < 2 THEN None
                      ELSE Some([username |-> parts[1], board |-> parts[2]])

(***************************************************************************)
(* The limit parameter: parseInt(s, 10), Math.max, Math.min.  A string is  *)
(* a sequence of characters.                                               *)
(***************************************************************************)
Digits == {"0", "1", "2", "3", "4", "5", "6", "7", "8", "9"}
DigitValue(c) ==
    CASE c = "0" -> 0 [] c = "1" -> 1 [] c = "2" -> 2 [] c = "3" -> 3 [] c = "4" -> 4
      [] c = "5" -> 5 [] c = "6" -> 6 [] c = "7" -> 7 [] c = "8" -> 8 [] c = "9" -> 9

RECURSIVE DigitPrefix(_)
DigitPrefix(str) ==
    IF str # <<>> /\ Head(str) \in Digits
    THEN <<Head(str)>> \o DigitPrefix(Tail(str)) ELSE <<>>

RECURSIVE Decimal(_, _)
Decimal(ds, acc) ==
    IF ds = <<>> THEN acc ELSE Decimal(Tail(ds), 10 * acc + DigitValue(Head(ds)))

\* parseInt(str, 10): leading white space, an optional sign, then the longest
\* prefix of digits; NaN when there is no digit.
parseInt(str) ==
    LET t == TrimStart(str)
        negative == t # <<>> /\ Head(t) = "-"
        unsigned == IF t # <<>> /\ Head(t) \in {"-", "+"} THEN Tail(t) ELSE t
        ds == DigitPrefix(unsigned)
    IN  IF ds = <<>> THEN NaN
        ELSE Num(IF negative THEN 0 - Decimal(ds, 0) ELSE Decimal(ds, 0))

\* Math.max and Math.min return NaN when an argument is NaN.
MathMax(a, b) == IF IsNaN(a) \/ IsNaN(b) THEN NaN
                 ELSE IF Val(a) >= Val(b) THEN a ELSE b
MathMin(a, b) == IF IsNaN(a) \/ IsNaN(b) THEN NaN
                 ELSE IF Val(a) <= Val(b) THEN a ELSE b
Times(a, k) == IF IsNaN(a) THEN NaN ELSE Num(Val(a) * k)

DefaultLimit == <<"1", "2">>
MinLimit == 1
MaxLimit == 48

\* Math.min(Math.max(parseInt(searchParams.get('limit') || '12', 10), 1), 48)
EffectiveLimit(param) ==
    LET str == IF param = None \/ param = Some(<<>>) THEN DefaultLimit ELSE Val(param)
    IN  MathMin(MathMax(parseInt(str), Num(MinLimit)), Num(MaxLimit))

\* searchParams.get('sort') || 'combined'
EffectiveSort(param) == IF Truthy(param) THEN param ELSE "combined"

(***************************************************************************)
(* toSummary.  Of the summary, the id, the image URL and the two counters  *)
(* are modelled; title, description and pinUrl are left out.               *)
(***************************************************************************)
\* a || b on image variants: a variant object is truthy whatever its url.
OrVariant(a, b) == IF a # NoVariant THEN a ELSE b

\* pin.images?.['orig'] || pin.images?.['736x'] || pin.images?.['474x'] || pin.images?.['170x']
BaseImage(images) ==
    OrVariant(OrVariant(OrVariant(images.orig, images.v736), images.v474), images.v170)

\* typeof count === 'number' ? count : 0
CountOrZero(c) == IF c = None THEN 0 ELSE Val(c)

\* null is None.
toSummary(raw) ==
    LET baseImage == BaseImage(raw.images)
    IN  IF ~Truthy(baseImage) THEN None
        ELSE Some([id |-> raw.id, imageUrl |-> baseImage,
                   saves |-> CountOrZero(raw.repin_count),
                   likes |-> CountOrZero(raw.like_count)])

(***************************************************************************)
(* sortPins.                                                               *)
(***************************************************************************)
\* The value of the comparator handed to Array.prototype.sort.
\* (CompareLikesOnly: the likes comparator whatever the mode.)
CompareLikesOnly(a, b, mode) == b.likes - a.likes
Compare(a, b, mode) ==
    CASE mode = "likes" -> b.likes - a.likes
      [] mode = "saves" -> b.saves - a.saves
      [] OTHER -> (b.likes * 2 + b.saves) - (a.likes * 2 + a.saves)

\* Array.prototype.sort is stable: x goes before the first element that the
\* comparator orders after it.
RECURSIVE Insert(_, _, _)
Insert(s, x, mode) ==
    IF s = <<>> THEN <<x>>
    ELSE IF Compare(Head(s), x, mode) > 0 THEN <<x>> \o s
    ELSE <<Head(s)>> \o Insert(Tail(s), x, mode)

RECURSIVE Sort(_, _)
Sort(s, mode) ==
    IF s = <<>> THEN <<>>
    ELSE Insert(Sort(SubSeq(s, 1, Len(s) - 1), mode), s[Len(s)], mode)

\* A call sortPins(pins, sort): the array passed, as the call leaves it, and
\* the array returned.  [...pins] copies, so the argument is not sorted.
\* (sortPinsInPlace: pins.sort(...) without the copy.)
sortPinsInPlace(arr, mode) == [pins |-> Sort(arr, mode), returned |-> Sort(arr, mode)]
sortPins(arr, mode) == [pins |-> arr, returned |-> Sort(arr, mode)]

(***************************************************************************)
(* GET (aggregation).                                                      *)
(***************************************************************************)
\* pins.map((pin) => toSummary(pin, ...)).filter((pin) => !!pin)
RECURSIVE Summaries(_)
Summaries(raws) ==
    IF raws = <<>> THEN <<>>
    ELSE toSummary(Head(raws)) \o Summaries(Tail(raws))

\* Lines 225-230 up to the call of fetchPins; parseBoard may throw.
HandleRequest ==
    /\ pc = "request"
    /\ IF parseBoard(boardParam) = None
       THEN /\ pc' = "thrown"
            /\ UNCHANGED <<limit, sort, fetchLimit>>
       ELSE /\ limit' = EffectiveLimit(limitParam)
            /\ sort' = EffectiveSort(sortParam)
            /\ fetchLimit' = Times(EffectiveLimit(limitParam), 2)
            /\ pc' = "loop"
    /\ UNCHANGED <<boardParam, limitParam, sortParam, response>>
    /\ UNCHANGED <<collected, bookmark, iterations, requests, sentBookmark,
                   payload, result>>
    /\ UNCHANGED <<relayVars, pureVars>>

\* Lines 231-264: fetchPins has returned.
Respond ==
    /\ pc = "returned"
    /\ LET summaries == Summaries(result)
       IN  response' =
               IF Len(summaries) = 0
               THEN [status |-> 404, pins |-> <<>>]
               ELSE [status |-> 200,
                     pins |-> Slice(sortPins(summaries, sort).returned, limit)]
    /\ pc' = "done"
    /\ UNCHANGED <<boardParam, limitParam, sortParam, limit, sort>>
    /\ UNCHANGED <<fetchVars, relayVars, pureVars>>

\* Lines 265-268: an error thrown by parseBoard or fetchPins is caught.
Catch ==
    /\ pc = "thrown"
    /\ response' = [status |-> 400, pins |-> <<>>]
    /\ pc' = "done"
    /\ UNCHANGED <<boardParam, limitParam, sortParam, limit, sort>>
    /\ UNCHANGED <<fetchVars, relayVars, pureVars>>

BoardParams ==
    { Absent, <<" ">>, <<"alice">>, <<"alice", "/", "travel">>,
      <<"https://www.pinterest.com", "/", "alice">>,
      <<" ", "https://www.pinterest.com", "/", "alice", "/", "travel", "/">> }

LimitParams ==
    { None, Some(<<>>), Some(<<"x">>), Some(<<"0">>), Some(<<"1">>),
      Some(<<"-", "3">>), Some(<<"4", "9">>), Some(<<"2", "x">>) }

SortParams == {Absent, "saves"}

\* Pages under the primary path, with or without a cursor, and a failure.
AggPayloads ==
    { Response(TRUE, Some(page), None, cursor, Absent, Absent) :
        page \in Pages, cursor \in {Absent, "c-top"} }
    \cup {ErrorResponse}

InitAgg ==
    /\ pc = "request"
    /\ boardParam \in BoardParams
    /\ limitParam \in LimitParams
    /\ sortParam \in SortParams
    /\ limit = NaN /\ sort = Absent /\ response = [status |-> 0, pins |-> <<>>]
    /\ IdleFetch /\ IdleRelay /\ IdlePure

NextAgg ==
    \/ HandleRequest
    \/ SendRequest
    \/ \E p \in AggPayloads : ReceivePage(p)
    \/ Return
    \/ Respond
    \/ Catch

SpecAgg == InitAgg /\ [][NextAgg]_vars

(***************************************************************************)
(* Properties of fetchPins.                                                *)
(***************************************************************************)
IsPrefix(a, b) == Len(a) <= Len(b) /\ SubSeq(b, 1, Len(a)) = a
IdsDistinct(s) ==
    \A i, j \in 1..Len(s) : (i < j /\ s[i].id # NoId) => s[i].id # s[j].id
FirstIndex(page, id) ==
    CHOOSE k \in 1..Len(page) :
        page[k].id = id /\ \A m \in 1..(k - 1) : page[m].id # id
NoIdCount(s) == Cardinality({i \in 1..Len(s) : s[i].id = NoId})
NonEmptyList(a) == a # None /\ Val(a) # <<>>
\* The first of the three cursor locations holding a non-empty cursor.
FirstCursor(p) ==
    IF Truthy(p.bookmark) THEN p.bookmark
    ELSE IF Truthy(p.rr_bookmark) THEN p.rr_bookmark
    ELSE IF Truthy(p.opt_bookmark) THEN p.opt_bookmark
    ELSE Absent
\* A step in which a page of records was received and processed.
PageProcessed == pc = "await" /\ pc' \in {"loop", "noCursor"}

\* C1: a call of fetchPins issues at most 10 outbound page requests, whatever
\* the upstream answers.
C1_AtMostTenRequests == requests <= 10

\* C1 witness: a call that returned after issuing 10 requests, the upstream
\* still offering a cursor after the last one.
C1_Witness ==
    pc = "returned" /\ requests = 10 /\ iterations = 10 /\ Truthy(bookmark)

\* C3: the accumulated and the returned sequence hold each record id at most
\* once, in the order of the first occurrence of the id: processing a page
\* never moves or removes an earlier entry, every id of the page is present
\* afterwards, and each entry added is the first record of the page with that
\* id, added in page order.
C3_FirstSeenOrder ==
    /\ [](/\ IdsDistinct(collected)
          /\ pc = "returned" => (IsPrefix(result, collected) /\ IdsDistinct(result)))
    /\ [][PageProcessed =>
            LET page == PinsPayload(payload')
                old == Len(collected)
                new == Len(collected')
                HasId(i) == collected'[i].id # NoId
            IN  /\ IsPrefix(collected, collected')
                /\ \A k \in 1..Len(page) :
                       page[k].id # NoId =>
                           \E i \in 1..new : collected'[i].id = page[k].id
                /\ \A i \in (old + 1)..new :
                       HasId(i) =>
                           /\ collected'[i] = page[FirstIndex(page, collected'[i].id)]
                           /\ \A m \in 1..old : collected[m].id # collected'[i].id
                /\ \A i, j \in (old + 1)..new :
                       (i < j /\ HasId(i) /\ HasId(j)) =>
                           FirstIndex(page, collected'[i].id)
                               < FirstIndex(page, collected'[j].id)
         ]_vars

\* C3 witness: the page just processed repeats, with different content, an id
\* accumulated from an earlier page, and the accumulator still holds the
\* earlier record, ahead of a later one.
C3_Witness ==
    /\ pc = "loop" /\ iterations >= 2 /\ Len(collected) >= 2
    /\ LET page == PinsPayload(payload)
       IN  \E k \in 1..Len(page) :
               /\ page[k].id # NoId
               /\ collected[1].id = page[k].id
               /\ \A m \in 1..Len(page) : page[m].id = page[k].id => page[m] # collected[1]

\* C8: fetchPins stops for end-of-stream only if all three cursor locations
\* are absent or empty, and the bookmark parameter of the next request is the
\* first non-empty cursor of the three locations.
C8_FirstNonEmptyCursor ==
    [][/\ (pc = "await" /\ pc' = "noCursor") => FirstCursor(payload') = Absent
       /\ (pc = "loop" /\ pc' = "await" /\ requests >= 1) =>
              sentBookmark' = FirstCursor(payload)
      ]_vars

\* C9: fetchPins stops for lack of records only if neither data.pins nor
\* resource_response.data holds a non-empty list.
C9_FallbackWhenPrimaryEmpty ==
    pc = "noRecords" =>
        (~NonEmptyList(payload.data_pins) /\ ~NonEmptyList(payload.rr_data))

\* C10: every record without an id on a processed page is appended to the
\* accumulator, and each counts toward the target.
C10_IdlessAlwaysAppended ==
    [][PageProcessed =>
            LET page == PinsPayload(payload')
            IN  /\ NoIdCount(collected') = NoIdCount(collected) + NoIdCount(page)
                /\ Len(collected') >= Len(collected) + NoIdCount(page)
      ]_vars


(***************************************************************************)
(* Properties of the aggregation endpoint.                                 *)
(***************************************************************************)
InFetchPins == pc \in {"loop", "await", "noRecords", "noCursor", "returned"}

\* C4: once a page request gets a non-success response, fetchPins has failed
\* without a result, no further page request is issued, and the endpoint
\* answers with status 400 and no pins.
C4_UpstreamFailureIsFatal ==
    /\ [](~payload.ok =>
            /\ pc \in {"thrown", "done"}
            /\ result = <<>>
            /\ pc = "done" => response = [status |-> 400, pins |-> <<>>])
    /\ [][~payload.ok => requests' = requests]_vars

\* C4 witness: the endpoint has answered after a failure of a later page
\* request, records of earlier pages being accumulated.
C4_Witness ==
    /\ pc = "done" /\ ~payload.ok
    /\ requests >= 2 /\ Len(collected) >= 1
    /\ response.status = 400

\* C7: whatever the limit parameter, the effective limit is an integer of
\* 1..48, 12 when the parameter is absent; fetchPins is asked for twice as many
\* records, and the response holds at most that many pins.
C7_LimitClamped ==
    (InFetchPins \/ (pc = "done" /\ response.status # 400)) =>
        /\ ~IsNaN(limit)
        /\ Val(limit) \in 1..48
        /\ limitParam = None => Val(limit) = 12
        /\ fetchLimit = Num(2 * Val(limit))
        /\ Len(response.pins) <= Val(limit)


(***************************************************************************)
(* toSummary as a function of one raw record.                              *)
(***************************************************************************)
VariantValues(url) == {NoVariant, "", url}

NormInputs ==
    { RawPin(id, Images(o, a, b, c), likes, Some(1)) :
        id \in {"7"},
        o \in VariantValues("orig.jpg"), a \in VariantValues("736.jpg"),
        b \in VariantValues("474.jpg"), c \in VariantValues("170.jpg"),
        likes \in {None, Some(4)} }

Normalize ==
    /\ pc = "toSummary"
    /\ summary' = toSummary(Val(pin))
    /\ pc' = "normalized"
    /\ UNCHANGED <<pin, pins, sorted>>
    /\ UNCHANGED <<aggVars, fetchVars, relayVars>>

InitNorm ==
    /\ pc = "toSummary"
    /\ pin \in {Some(r) : r \in NormInputs}
    /\ summary = None /\ pins = <<>> /\ sorted = <<>>
    /\ IdleAgg /\ IdleFetch /\ IdleRelay

NextNorm == Normalize

SpecNorm == InitNorm /\ [][NextNorm]_vars

\* The URL of the first of the four variants, in the order orig, 736x, 474x,
\* 170x, that is present with a non-empty URL; Absent when there is none.
FirstUsable(images) ==
    IF Truthy(images.orig) THEN images.orig
    ELSE IF Truthy(images.v736) THEN images.v736
    ELSE IF Truthy(images.v474) THEN images.v474
    ELSE IF Truthy(images.v170) THEN images.v170
    ELSE Absent

\* C5: toSummary returns null exactly when no variant is present with a
\* non-empty URL; otherwise imageUrl is the URL of the first such variant.
C5_FirstUsableVariant ==
    pc = "normalized" =>
        LET usable == FirstUsable(Val(pin).images)
        IN  /\ summary = None <=> usable = Absent
            /\ usable # Absent => Val(summary).imageUrl = usable

(***************************************************************************)
(* sortPins as a function of a list of summaries and a mode.               *)
(***************************************************************************)
MaxPins == 3         \* length of a list handed to sortPins
MaxCount == 2        \* largest likes or saves counter

RankSummaries ==
    { [id |-> "7", imageUrl |-> "orig.jpg", saves |-> sv, likes |-> lk] :
        sv \in 0..MaxCount, lk \in 0..MaxCount }

Modes == {"likes", "saves", "combined", "zzz"}

SortCall ==
    /\ pc = "sortPins"
    /\ LET call == sortPins(pins, sort)
       IN  pins' = call.pins /\ sorted' = call.returned
    /\ pc' = "sorted"
    /\ UNCHANGED <<boardParam, limitParam, sortParam, limit, sort, response>>
    /\ UNCHANGED <<pin, summary>>
    /\ UNCHANGED <<fetchVars, relayVars>>

InitRank ==
    /\ pc = "sortPins"
    /\ pins \in SeqsUpTo(RankSummaries, MaxPins)
    /\ sort \in Modes
    /\ sorted = <<>> /\ pin = None /\ summary = None
    /\ boardParam = Absent /\ limitParam = None /\ sortParam = Absent
    /\ limit = NaN /\ response = [status |-> 0, pins |-> <<>>]
    /\ IdleFetch /\ IdleRelay

NextRank == SortCall

SpecRank == InitRank /\ [][NextRank]_vars

Occurrences(s, x) == Cardinality({i \in 1..Len(s) : s[i] = x})
IsPermutation(a, b) ==
    /\ Len(a) = Len(b)
    /\ \A x \in Range(a) \cup Range(b) : Occurrences(a, x) = Occurrences(b, x)
Score(x, mode) ==
    IF mode = "likes" THEN x.likes
    ELSE IF mode = "saves" THEN x.saves
    ELSE 2 * x.likes + x.saves
Descending(s, mode) ==
    \A i, j \in 1..Len(s) : i < j => Score(s[i], mode) >= Score(s[j], mode)

\* C6: sortPins returns a permutation of its argument in descending order of
\* likes (mode likes), of saves (mode saves) or of 2*likes + saves (any other
\* mode), and leaves the argument as it was.
C6_RankedPermutation ==
    [][(pc = "sortPins" /\ pc' = "sorted") =>
            /\ pins' = pins
            /\ IsPermutation(sorted', pins)
            /\ Descending(sorted', sort)
      ]_vars

\* C6 witness: an unknown mode has ranked three pins by the combined score,
\* in an order that neither likes nor saves alone give, the argument differing
\* from the result.
C6_Witness ==
    /\ pc = "sorted" /\ sort = "zzz" /\ Len(sorted) = 3 /\ sorted # pins
    /\ ~Descending(sorted, "likes") /\ ~Descending(sorted, "saves")


(***************************************************************************)
(* GET (relay).  The url parameter is None (missing) or a string, given as *)
(* a sequence of tokens: the scheme "https://", "/", "@", or a name.       *)
(***************************************************************************)
MaxUrlLen == 3       \* tokens of a url parameter after the scheme

ALLOWED_HOSTS == {<<"i.pinimg.com">>}

UrlTokens == {"i.pinimg.com", "evil.com", "@", "/", "a.jpg"}

UrlParams ==
    {None}
    \cup {Some(t) : t \in SeqsUpTo(UrlTokens, MaxUrlLen)}
    \cup {Some(<<"https://">> \o t) : t \in SeqsUpTo(UrlTokens, MaxUrlLen)}

RECURSIVE SkipSlashes(_)
SkipSlashes(t) == IF t # <<>> /\ Head(t) = "/" THEN SkipSlashes(Tail(t)) ELSE t

RECURSIVE UpToSlash(_)
UpToSlash(t) ==
    IF t = <<>> \/ Head(t) = "/" THEN <<>> ELSE <<Head(t)>> \o UpToSlash(Tail(t))

RECURSIVE AfterLastAt(_)
AfterLastAt(t) ==
    IF \E i \in 1..Len(t) : t[i] = "@"
    THEN AfterLastAt(Tail(t)) ELSE t

\* new URL(str) for an https URL: the slashes after the scheme are skipped, the
\* authority runs to the next slash and the host is what follows its last "@".
\* None when the constructor throws: no scheme, or an empty host.
ParseUrl(str) ==
    IF str = <<>> \/ Head(str) # "https://" THEN None
    ELSE LET rest == SkipSlashes(Tail(str))
             authority == UpToSlash(rest)
             host == AfterLastAt(authority)
         IN  IF host = <<>> THEN None
             ELSE Some([hostname |-> host,
                        path |-> SubSeq(rest, Len(authority) + 1, Len(rest))])

\* ALLOWED_HOSTS.has(target.hostname)
\* (HostAllowedLoose: a containment test in place of set membership.)
HostAllowedLoose(hostname) == \E h \in ALLOWED_HOSTS : h[1] \in Range(hostname)
HostAllowed(hostname) == hostname \in ALLOWED_HOSTS

\* The upstream answers: success with or without a content type, a
\* non-success status, or no answer (fetch rejects).
Upstreams == {"ok:image/png", "ok", "error", "unreachable"}

\* Lines 8-19: the parameter is read and checked; the fetch is issued.
RelayRequest ==
    /\ pc = "relay"
    /\ IF urlParam = None \/ urlParam = Some(<<>>)
       THEN /\ response' = [status |-> 400, pins |-> <<>>]
            /\ pc' = "done" /\ UNCHANGED fetched
       ELSE LET target == ParseUrl(Val(urlParam))
            IN  IF target = None
                THEN /\ response' = [status |-> 400, pins |-> <<>>]
                     /\ pc' = "done" /\ UNCHANGED fetched
                ELSE IF ~HostAllowed(Val(target).hostname)
                THEN /\ response' = [status |-> 400, pins |-> <<>>]
                     /\ pc' = "done" /\ UNCHANGED fetched
                ELSE /\ fetched' = Append(fetched, Val(target))
                     /\ pc' = "relayAwait" /\ UNCHANGED response
    /\ UNCHANGED <<urlParam, upstream>>
    /\ UNCHANGED <<boardParam, limitParam, sortParam, limit, sort>>
    /\ UNCHANGED <<fetchVars, pureVars>>

\* Lines 26-42: the upstream response up arrives.
RelayReceive(up) ==
    /\ pc = "relayAwait"
    /\ upstream' = up
    /\ response' = [status |-> CASE up = "unreachable" -> 400
                                 [] up = "error" -> 502
                                 [] OTHER -> 200,
                    pins |-> <<>>]
    /\ pc' = "done"
    /\ UNCHANGED <<urlParam, fetched>>
    /\ UNCHANGED <<boardParam, limitParam, sortParam, limit, sort>>
    /\ UNCHANGED <<fetchVars, pureVars>>

InitRelay ==
    /\ pc = "relay"
    /\ urlParam \in UrlParams
    /\ fetched = <<>> /\ upstream = Absent
    /\ IdleAgg /\ IdleFetch /\ IdlePure

NextRelay ==
    \/ RelayRequest
    \/ \E up \in Upstreams : RelayReceive(up)

SpecRelay == InitRelay /\ [][NextRelay]_vars

\* The host of a url parameter, None when the parameter is missing or is not
\* a well-formed absolute URL.
HostOf(param) ==
    IF param = None THEN None
    ELSE IF ParseUrl(Val(param)) = None THEN None
    ELSE Some(Val(ParseUrl(Val(param))).hostname)

\* C2: a relay request whose url parameter is missing, malformed or names a
\* host other than i.pinimg.com is answered with status 400 and never issues
\* an outbound fetch; every outbound fetch goes to i.pinimg.com.
C2_NoFetchBeforeHostCheck ==
    /\ HostOf(urlParam) # Some(<<"i.pinimg.com">>) =>
           /\ fetched = <<>>
           /\ pc = "done" => response.status = 400
    /\ \A i \in 1..Len(fetched) : fetched[i].hostname = <<"i.pinimg.com">>

\* C2 witness: a well-formed URL naming i.pinimg.com next to another host was
\* answered with status 400.
C2_Witness ==
    /\ pc = "done" /\ response.status = 400 /\ fetched = <<>>
    /\ HostOf(urlParam) # None
    /\ "i.pinimg.com" \in Range(Val(HostOf(urlParam)))
    /\ "evil.com" \in Range(Val(HostOf(urlParam)))

====
